---- MODULE Spec2Model ----
(***************************************************************************)
(* Page-selection parsing and the page-manipulation request handlers of    *)
(* main.py (extract, delete-pages, reorder, pdf-to-jpg).                   *)
(*                                                                         *)
(* A Python str is modelled as a sequence of one-character strings, so     *)
(* that split, strip, int() and str() are computed character by character. *)
(***************************************************************************)
EXTENDS Integers, Sequences, FiniteSets, TLC

\* ------------------------------------------------------------------ bounds

\* Largest number of comma-separated tokens in a submitted page spec.
MaxTokens == 3

\* Largest page count of an uploaded document.
MaxPages == 10

\* ----------------------------------------------------------------- strings

Digits == <<"0", "1", "2", "3", "4", "5", "6", "7", "8", "9">>

DigitChars == {Digits[i] : i \in DOMAIN Digits}

DigitVal(c) == (CHOOSE i \in DOMAIN Digits : Digits[i] = c) - 1

IsSpace(c) == c = " "

\* s[from..to] as a sequence (empty when from > to).
Slice(s, from, to) == [i \in 1..(to - from + 1) |-> s[from + i - 1]]

\* str.strip(): drop leading and trailing whitespace.
strip(s) ==
    LET keep == {i \in DOMAIN s : ~IsSpace(s[i])}
    IN  IF keep = {} THEN <<>>
        ELSE LET lo == CHOOSE i \in keep : \A j \in keep : i <= j
                 hi == CHOOSE i \in keep : \A j \in keep : j <= i
             IN  Slice(s, lo, hi)

\* str.split(sep) for a one-character separator: the pieces between the
\* separators, of which there is always at least one ("".split(",") == [""]).
RECURSIVE split(_, _)
split(s, sep) ==
    LET at == {i \in DOMAIN s : s[i] = sep}
    IN  IF at = {} THEN <<s>>
        ELSE LET k == CHOOSE i \in at : \A j \in at : i <= j
             IN  <<Slice(s, 1, k - 1)>> \o split(Slice(s, k + 1, Len(s)), sep)

\* sep.join(parts)
RECURSIVE join(_, _)
join(parts, sep) ==
    IF parts = <<>> THEN <<>>
    ELSE IF Len(parts) = 1 THEN parts[1]
    ELSE parts[1] \o <<sep>> \o join(Tail(parts), sep)

\* The value of a non-empty string of decimal digits.
RECURSIVE DecimalValue(_)
DecimalValue(ds) ==
    IF ds = <<>> THEN 0
    ELSE 10 * DecimalValue(Slice(ds, 1, Len(ds) - 1)) + DigitVal(ds[Len(ds)])

\* An outcome of a Python expression: a value, or a raised exception.
Value(v) == [raised |-> FALSE, exc |-> "none", value |-> v]

Raise(e) == [raised |-> TRUE, exc |-> e, value |-> <<>>]

\* int() on the digits that follow the optional sign: they must be a
\* non-empty run of decimal digits, anything else raises ValueError.
int_signed(sign, ds) ==
    IF ds = <<>> \/ \E i \in DOMAIN ds : ds[i] \notin DigitChars
    THEN Raise("ValueError")
    ELSE Value(IF sign = "-" THEN 0 - DecimalValue(ds) ELSE DecimalValue(ds))

\* int() once the surrounding whitespace is gone: one leading sign is allowed.
int_stripped(t) ==
    IF t # <<>> /\ t[1] \in {"-", "+"}
    THEN int_signed(t[1], Tail(t))
    ELSE int_signed("+", t)

\* int(s) for a str.
int(s) == int_stripped(strip(s))

\* list(range(a, b)): a, a+1, ..., b-1 (empty when a >= b).
range(a, b) == [i \in 1..(b - a) |-> a + i - 1]

\* sorted(xs) for a collection without duplicates, given as a set.
RECURSIVE sorted(_)
sorted(S) ==
    IF S = {} THEN <<>>
    ELSE LET m == CHOOSE x \in S : \A y \in S : x <= y
         IN  <<m>> \o sorted(S \ {m})

\* set(xs)
Elems(xs) == {xs[i] : i \in DOMAIN xs}

\* reversed(xs)
reversed(xs) == [i \in DOMAIN xs |-> xs[Len(xs) + 1 - i]]

\* ------------------------------------------------------- parse_page_ranges

\* expand_bounds with the range's upper end left out: range(int(a), int(b)).
expand_bounds_exclusive(a, b) ==
    IF a.raised \/ b.raised THEN Raise("ValueError")
    ELSE Value(range(a.value, b.value))

\* pages += list(range(int(a), int(b)+1)), given the outcomes of the int()s.
expand_bounds(a, b) ==
    IF a.raised \/ b.raised THEN Raise("ValueError")
    ELSE Value(range(a.value, b.value + 1))

\* a,b = part.split("-"): unpacking anything but two pieces raises ValueError.
expand_range(ab) ==
    IF Len(ab) # 2 THEN Raise("ValueError")
    ELSE expand_bounds(int(ab[1]), int(ab[2]))

\* expand_single that skips a part int() rejects instead of raising.
expand_single_skip(n) ==
    IF n.raised THEN Value(<<>>) ELSE Value(<<n.value>>)

\* pages.append(int(part)), given the outcome of the int().
expand_single(n) ==
    IF n.raised THEN Raise("ValueError") ELSE Value(<<n.value>>)

\* One iteration of the loop over parts: the pages the part contributes, or
\* the exception it raises.
expand_part(part) ==
    IF "-" \in Elems(part)
    THEN expand_range(split(part, "-"))
    ELSE expand_single(int(part))

\* The loop building `pages`: it stops at the first part that raises.
RECURSIVE collect_pages(_, _)
RECURSIVE collect_next(_, _, _)
collect_next(e, rest, pages) ==
    IF e.raised THEN e ELSE collect_pages(rest, pages \o e.value)

collect_pages(parts, pages) ==
    IF parts = <<>> THEN Value(pages)
    ELSE collect_next(expand_part(parts[1]), Tail(parts), pages)

\* parts = [p.strip() for p in s.split(",")]
strip_each(parts) == [i \in DOMAIN parts |-> strip(parts[i])]

\* filter_sort that returns the filtered list as built: no set(), no sorted().
filter_sort_as_listed(got, max_page) ==
    IF got.raised THEN got
    ELSE Value(SelectSeq(got.value, LAMBDA p : 1 <= p /\ p <= max_page))

\* filter_sort whose filter has lost its upper bound.
filter_sort_no_upper(got, max_page) ==
    IF got.raised THEN got
    ELSE Value(sorted({p \in Elems(got.value) : 1 <= p}))

\* filter_sort that hands back 0-based page numbers.
filter_sort_zero_based(got, max_page) ==
    IF got.raised THEN got
    ELSE Value(sorted({p - 1 : p \in {q \in Elems(got.value) : 1 <= q /\ q <= max_page}}))

\* pages = [p for p in pages if 1 <= p <= max_page]; return sorted(set(pages))
filter_sort(got, max_page) ==
    IF got.raised THEN got
    ELSE Value(sorted({p \in Elems(got.value) : 1 <= p /\ p <= max_page}))

parse_page_ranges(s, max_page) ==
    filter_sort(collect_pages(strip_each(split(s, ",")), <<>>), max_page)

\* order_list = [int(x) for x in order.split(",")]: the comprehension
\* converts from left to right and stops at the first int() that raises.
RECURSIVE int_each(_, _)
RECURSIVE int_next(_, _, _)
\* int_next that drops an index already listed.
int_next_no_repeats(n, rest, acc) ==
    IF n.raised THEN n
    ELSE IF n.value \in Elems(acc) THEN int_each(rest, acc)
    ELSE int_each(rest, Append(acc, n.value))

int_next(n, rest, acc) ==
    IF n.raised THEN n ELSE int_each(rest, Append(acc, n.value))

int_each(xs, acc) ==
    IF xs = <<>> THEN Value(acc)
    ELSE int_next(int(xs[1]), Tail(xs), acc)

parse_order(order) == int_each(split(order, ","), <<>>)

\* ------------------------------------------------------------------ inputs

\* The tokens a submitted page spec is assembled from: bare integers (with
\* and without surrounding blanks, zero, signed, two digits), a range, a
\* reversed range, a word and the empty token.
TokenSet ==
    { <<"1">>, <<"3">>, <<" ", "2">>, <<"1", "0">>, <<"0">>, <<"-", "1">>,
      <<"5", "-", "7">>, <<"7", "-", "5">>, <<"a", "b", "c">>, <<>> }

TokenSeqs == UNION {[1..k -> TokenSet] : k \in 1..MaxTokens}

\* The form field values a client may send: tokens joined by commas.
Forms == {join(ts, ",") : ts \in TokenSeqs}

\* An upload: a PDF of page_count pages, or bytes that are no PDF at all.
Uploads == [is_pdf : {TRUE}, page_count : 0..MaxPages]
               \cup [is_pdf : {FALSE}, page_count : {0}]

Handlers == {"extract_pages", "delete_pages", "reorder_pages", "pdf_to_jpg"}

\* ------------------------------------------------------------------- state

VARIABLES
    handler,    \* the endpoint serving the request, "none" before it arrives
    upload,     \* the uploaded file
    form,       \* the `pages` / `order` form field, once the handler reads it
    pc,         \* the statement the handler is at
    status,     \* "idle", "running", "returned" or "raised"
    exc,        \* the exception that ended the handler, "none" otherwise
    fs,         \* temporary files that exist: "path" (upload), "out" (result)
    doc,        \* pages of the opened source document, as source page numbers
    parsed,     \* whether sel / order_list has been assigned
    sel,        \* sel (extract, delete) or order_list (reorder)
    todo,       \* what the for loop has still to iterate over
    new,        \* pages of the document being built
    saved       \* pages written to the output file

vars == <<handler, upload, form, pc, status, exc, fs, doc, parsed, sel, todo,
          new, saved>>

\* ---------------------------------------------------------------- handlers

\* Program with the output file made before the page spec is parsed.
Program_out_first(h) ==
    CASE h = "extract_pages" ->
            <<"save_upload", "open", "mkout", "parse", "insert", "save",
              "remove", "return">>
      [] h = "delete_pages" ->
            <<"save_upload", "open", "mkout", "parse", "delete", "save",
              "remove", "return">>
      [] h = "reorder_pages" ->
            <<"save_upload", "open", "mkout", "parse_order", "insert", "save",
              "remove", "return">>
      [] h = "pdf_to_jpg" ->
            <<"save_upload", "convert", "return">>

\* The statements of each handler, in source order.
Program(h) ==
    CASE h = "extract_pages" ->
            <<"save_upload", "open", "parse", "insert", "mkout", "save",
              "remove", "return">>
      [] h = "delete_pages" ->
            <<"save_upload", "open", "parse", "delete", "mkout", "save",
              "remove", "return">>
      [] h = "reorder_pages" ->
            <<"save_upload", "open", "parse_order", "insert", "mkout", "save",
              "remove", "return">>
      [] h = "pdf_to_jpg" ->
            <<"save_upload", "convert", "return">>

\* The statement that follows statement l in handler h.
After(h, l) ==
    LET prog == Program(h)
        k == CHOOSE i \in DOMAIN prog : prog[i] = l
    IN  prog[k + 1]

At(l) == status = "running" /\ pc = l

Goto == pc' = After(handler, pc)

\* An exception leaves the handler at once; pc stays at the raising statement.
Raised(e) == status' = "raised" /\ exc' = e /\ pc' = pc

Init ==
    /\ handler = "none"
    /\ upload = [is_pdf |-> FALSE, page_count |-> 0]
    /\ form = <<>>
    /\ pc = "none"
    /\ status = "idle"
    /\ exc = "none"
    /\ fs = {}
    /\ doc = <<>>
    /\ parsed = FALSE
    /\ sel = <<>>
    /\ todo = <<>>
    /\ new = <<>>
    /\ saved = <<>>

\* A request arrives at one of the endpoints with a file.
Request ==
    /\ status = "idle"
    /\ \E h \in Handlers, up \in Uploads :
          /\ handler' = h
          /\ upload' = up
          /\ pc' = Program(h)[1]
    /\ status' = "running"
    /\ UNCHANGED <<form, exc, fs, doc, parsed, sel, todo, new, saved>>

\* path = save_uploadfile_tmp(file)
save_uploadfile_tmp ==
    /\ At("save_upload")
    /\ fs' = fs \cup {"path"}
    /\ Goto
    /\ UNCHANGED <<handler, upload, form, status, exc, doc, parsed, sel, todo,
                   new, saved>>

\* doc = fitz.open(path): raises when the file is no PDF.
fitz_open ==
    /\ At("open")
    /\ IF upload.is_pdf
       THEN /\ doc' = [i \in 1..upload.page_count |-> i]
            /\ Goto
            /\ UNCHANGED <<status, exc>>
       ELSE /\ Raised("EngineError")
            /\ UNCHANGED doc
    /\ UNCHANGED <<handler, upload, form, fs, parsed, sel, todo, new, saved>>

\* The assignment of a parsed spec to sel / order_list and to the iterable
\* of the loop that follows, or the exception that parsing raised.
assign(r, iterable) ==
    IF r.raised
    THEN /\ Raised(r.exc)
         /\ UNCHANGED <<parsed, sel, todo>>
    ELSE /\ parsed' = TRUE
         /\ sel' = r.value
         /\ todo' = iterable
         /\ Goto
         /\ UNCHANGED <<status, exc>>

\* loop_over that deletes in the order of sel, lowest page first.
loop_over_ascending(r) == r.value

\* The iterable of the loop after parsing: sel (extract),
\* sorted(sel, reverse=True) (delete).
loop_over(r) ==
    IF handler = "delete_pages" THEN reversed(sorted(Elems(r.value)))
    ELSE r.value

assign_sel(r) == assign(r, loop_over(r))

assign_order(r) == assign(r, r.value)

\* sel = parse_page_ranges(pages, doc.page_count)
parse_sel ==
    /\ At("parse")
    /\ \E pages \in Forms :
          /\ form' = pages
          /\ assign_sel(parse_page_ranges(pages, Len(doc)))
    /\ UNCHANGED <<handler, upload, fs, doc, new, saved>>

\* order_list = [int(x) for x in order.split(",")]
parse_order_list ==
    /\ At("parse_order")
    /\ \E order \in Forms :
          /\ form' = order
          /\ assign_order(parse_order(order))
    /\ UNCHANGED <<handler, upload, fs, doc, new, saved>>

Min(a, b) == IF a <= b THEN a ELSE b

Max(a, b) == IF a >= b THEN a ELSE b

\* The pages new.insert_pdf(src, from_page=f, to_page=t) appends for a source
\* of at least one page: PyMuPDF clamps from_page into [0, count-1], reads a
\* negative to_page as the last page and clamps to_page to count-1.
insert_pdf(src, f, t) ==
    LET srcCount == Len(src)
        fp == Min(Max(f, 0), srcCount - 1)
        tp == IF t < 0 THEN srcCount - 1 ELSE Min(t, srcCount - 1)
    IN  Slice(src, fp + 1, tp + 1)

\* for p in ...: new.insert_pdf(doc, from_page=p-1, to_page=p-1)
\* With an empty source the library either raises or copies nothing.
insert_loop ==
    /\ At("insert")
    /\ IF todo = <<>>
       THEN /\ Goto
            /\ UNCHANGED <<status, exc, todo, new>>
       ELSE LET p == Head(todo)
            IN  \/ /\ doc # <<>>
                   /\ new' = new \o insert_pdf(doc, p - 1, p - 1)
                   /\ todo' = Tail(todo)
                   /\ UNCHANGED <<status, exc, pc>>
                \/ /\ doc = <<>>
                   /\ todo' = Tail(todo)
                   /\ UNCHANGED <<status, exc, pc, new>>
                \/ /\ doc = <<>>
                   /\ Raised("EngineError")
                   /\ UNCHANGED <<todo, new>>
    /\ UNCHANGED <<handler, upload, form, fs, doc, parsed, sel, saved>>

\* doc.delete_page(pno) for a valid 0-based pno.
delete_page(d, pno) == [i \in 1..(Len(d) - 1) |-> IF i <= pno THEN d[i] ELSE d[i + 1]]

\* for p in sorted(sel, reverse=True): doc.delete_page(p-1)
\* The library raises for a page number outside the document; asked to
\* delete the only page left, it either does so or raises, depending on
\* its version.
delete_loop ==
    /\ At("delete")
    /\ IF todo = <<>>
       THEN /\ Goto
            /\ UNCHANGED <<status, exc, todo, doc>>
       ELSE LET p == Head(todo)
            IN  \/ /\ p - 1 \in 0..(Len(doc) - 1)
                   /\ doc' = delete_page(doc, p - 1)
                   /\ todo' = Tail(todo)
                   /\ UNCHANGED <<status, exc, pc>>
                \/ /\ p - 1 \notin 0..(Len(doc) - 1) \/ Len(doc) = 1
                   /\ Raised("EngineError")
                   /\ UNCHANGED <<todo, doc>>
    /\ UNCHANGED <<handler, upload, form, fs, parsed, sel, new, saved>>

\* out = tempfile.NamedTemporaryFile(suffix=".pdf", delete=False).name
make_out ==
    /\ At("mkout")
    /\ fs' = fs \cup {"out"}
    /\ Goto
    /\ UNCHANGED <<handler, upload, form, status, exc, doc, parsed, sel, todo,
                   new, saved>>

\* The document the handler saves: new (extract, reorder), doc (delete).
Result == IF handler = "delete_pages" THEN doc ELSE new

\* new.save(out) / doc.save(out): PyMuPDF refuses to save zero pages.
save_out ==
    /\ At("save")
    /\ IF Result = <<>>
       THEN /\ Raised("EngineError")
            /\ UNCHANGED saved
       ELSE /\ saved' = Result
            /\ Goto
            /\ UNCHANGED <<status, exc>>
    /\ UNCHANGED <<handler, upload, form, fs, doc, parsed, sel, todo, new>>

\* try: os.remove(path) / except: pass
remove_path ==
    /\ At("remove")
    /\ fs' = fs \ {"path"}
    /\ Goto
    /\ UNCHANGED <<handler, upload, form, status, exc, doc, parsed, sel, todo,
                   new, saved>>

\* images = convert_from_path(path, dpi=200): raises when the file is no PDF.
convert_from_path ==
    /\ At("convert")
    /\ IF upload.is_pdf
       THEN /\ new' = [i \in 1..upload.page_count |-> i]
            /\ Goto
            /\ UNCHANGED <<status, exc>>
       ELSE /\ Raised("EngineError")
            /\ UNCHANGED new
    /\ UNCHANGED <<handler, upload, form, fs, doc, parsed, sel, todo, saved>>

\* return StreamingResponse(...)
return_response ==
    /\ At("return")
    /\ status' = "returned"
    /\ UNCHANGED <<handler, upload, form, pc, exc, fs, doc, parsed, sel, todo,
                   new, saved>>

Next ==
    \/ Request
    \/ save_uploadfile_tmp
    \/ fitz_open
    \/ parse_sel
    \/ parse_order_list
    \/ insert_loop
    \/ delete_loop
    \/ make_out
    \/ save_out
    \/ remove_path
    \/ convert_from_path
    \/ return_response

Spec == Init /\ [][Next]_vars

\* ================================================================== claims

\* What the claims speak of: the comma-separated tokens of a spec, read by
\* the grammar of the specification rather than by the parser.

SetHandlers == {"extract_pages", "delete_pages"}

PageCount == upload.page_count

Tokens(f) == split(f, ",")

AllDigits(u) == u # <<>> /\ \A i \in DOMAIN u : u[i] \in DigitChars

\* A decimal integer without a sign, blanks around it allowed.
IsUnsignedInt(t) == AllDigits(strip(t))

\* A decimal integer, with or without a sign.
IsInt(t) ==
    LET u == strip(t)
    IN  \/ AllDigits(u)
        \/ u # <<>> /\ u[1] \in {"-", "+"} /\ AllDigits(Tail(u))

IntOf(t) ==
    LET u == strip(t)
    IN  IF u[1] = "-" THEN 0 - DecimalValue(Tail(u))
        ELSE IF u[1] = "+" THEN DecimalValue(Tail(u))
        ELSE DecimalValue(u)

\* The places where a "-" separates two integers A and B.
RangeCuts(t) ==
    {k \in DOMAIN t : /\ t[k] = "-"
                      /\ IsInt(Slice(t, 1, k - 1))
                      /\ IsInt(Slice(t, k + 1, Len(t)))}

IsRange(t) == ~IsInt(t) /\ RangeCuts(t) # {}

RangeLo(t) == IntOf(Slice(t, 1, (CHOOSE k \in RangeCuts(t) : TRUE) - 1))

RangeHi(t) == IntOf(Slice(t, (CHOOSE k \in RangeCuts(t) : TRUE) + 1, Len(t)))

\* A range whose bounds are written without a sign.
IsUnsignedRange(t) ==
    /\ IsRange(t)
    /\ \E k \in RangeCuts(t) : /\ IsUnsignedInt(Slice(t, 1, k - 1))
                               /\ IsUnsignedInt(Slice(t, k + 1, Len(t)))

\* The integers a token stands for.
Denotes(t) == IF IsInt(t) THEN {IntOf(t)} ELSE RangeLo(t)..RangeHi(t)

\* The set parser has run in this request (and returned or raised).
SetParseRan ==
    /\ handler \in SetHandlers
    /\ parsed \/ (status = "raised" /\ pc = "parse")

\* The set parser has returned a result.
SetParsed == handler \in SetHandlers /\ parsed

\* A parser has just returned: its result is assigned and the loop over it
\* has not begun.
JustParsed == parsed /\ pc \in {"insert", "delete"} /\ Len(todo) = Len(sel)

\* The set parser has just returned or has just raised.
SetParseEnded ==
    /\ handler \in SetHandlers
    /\ JustParsed \/ (status = "raised" /\ pc = "parse")

\* The spec "1,3,5-7".
Spec_1_3_5to7 == <<"1", ",", "3", ",", "5", "-", "7">>

\* C1: whenever the set parser returns, its result is strictly ascending
\* (hence free of duplicates) and every element lies in [1, pageCount].
C1_SortedUniqueInRange ==
    SetParsed =>
        /\ \A i, j \in DOMAIN sel : i < j => sel[i] < sel[j]
        /\ \A i \in DOMAIN sel : 1 <= sel[i] /\ sel[i] <= PageCount

\* C1 witness: a spec listing pages out of order, twice and beyond the
\* document ("3,10,1,3"-like) has been parsed into more than one page.
C1_Witness ==
    LET toks == Tokens(form)
    IN  /\ SetParsed
        /\ Len(sel) >= 2
        /\ \E i, j \in DOMAIN toks :
              /\ i < j
              /\ IsInt(toks[i]) /\ IsInt(toks[j])
              /\ IntOf(toks[i]) >= IntOf(toks[j])
        /\ \E i \in DOMAIN toks : IsInt(toks[i]) /\ IntOf(toks[i]) > PageCount

\* The pages a spec of well-formed tokens selects: the in-range values of
\* the union of its expanded tokens.
Selected(toks) ==
    {v \in UNION {Denotes(toks[i]) : i \in DOMAIN toks} :
        1 <= v /\ v <= PageCount}

\* C2 as claimed: for tokens that are integers N or ranges A-B with A <= B
\* the set parser, when it ends, has not failed and has returned exactly the
\* in-range values.
C2_IntegersAndRangesOriginal ==
    LET toks == Tokens(form)
    IN  (/\ SetParseEnded
         /\ \A i \in DOMAIN toks :
               \/ IsInt(toks[i])
               \/ IsRange(toks[i]) /\ RangeLo(toks[i]) <= RangeHi(toks[i]))
        => /\ parsed
           /\ Elems(sel) = Selected(toks)

\* C2 as amended: for tokens that are unsigned integers N or ranges A-B of
\* unsigned integers with A <= B the set parser does not fail and returns
\* exactly the in-range values of the union of the expanded tokens.
C2_UnsignedIntegersAndRanges ==
    LET toks == Tokens(form)
    IN  (/\ SetParseEnded
         /\ \A i \in DOMAIN toks :
               \/ IsUnsignedInt(toks[i])
               \/ IsUnsignedRange(toks[i]) /\ RangeLo(toks[i]) <= RangeHi(toks[i]))
        => /\ parsed
           /\ Elems(sel) = Selected(toks)

\* C2 witness: "1,3,5-7" parsed for a 10-page document gives [1,3,5,6,7].
C2_Witness ==
    /\ SetParsed
    /\ form = Spec_1_3_5to7
    /\ PageCount = 10
    /\ sel = <<1, 3, 5, 6, 7>>

\* C3 as claimed: "1,3,5-7" with pageCount 4 gives [1,3,4].
C3_TailDroppedOriginal ==
    (SetParseRan /\ form = Spec_1_3_5to7 /\ PageCount = 4)
        => (parsed /\ sel = <<1, 3, 4>>)

\* C3 as amended: "1,3,5-7" with pageCount 4 gives [1,3]: the whole range
\* 5-7 lies beyond the document and page 4 was never named.
C3_TailDropped ==
    (SetParseRan /\ form = Spec_1_3_5to7 /\ PageCount = 4)
        => (parsed /\ sel = <<1, 3>>)

\* C3 witness: the set parser has run on "1,3,5-7" for a 4-page document.
C3_Witness == SetParseRan /\ form = Spec_1_3_5to7 /\ PageCount = 4

\* C4: a range token A-B with A > B makes the set parser fail; it never
\* contributes to a returned result.
C4_ReversedRangeRejected ==
    LET toks == Tokens(form)
    IN  (/\ SetParseEnded
         /\ \E i \in DOMAIN toks :
               IsRange(toks[i]) /\ RangeLo(toks[i]) > RangeHi(toks[i]))
        => (~parsed /\ status = "raised" /\ exc = "ValueError")

\* The sequence parser of reorder has run (and returned or raised).
OrderParseRan ==
    /\ handler = "reorder_pages"
    /\ parsed \/ (status = "raised" /\ pc = "parse_order")

\* The sequence parser of reorder has just returned or has just raised.
OrderParseEnded ==
    /\ handler = "reorder_pages"
    /\ JustParsed \/ (status = "raised" /\ pc = "parse_order")

OrderParsed == handler = "reorder_pages" /\ parsed

InRange(p) == 1 <= p /\ p <= PageCount

\* C5: when an index supplied to reorder lies outside [1, pageCount] the
\* operation fails: no page is ever copied into the new document, nothing is
\* saved and no response is returned.
C5_OutOfRangeFails ==
    (OrderParsed /\ \E i \in DOMAIN sel : ~InRange(sel[i]))
        => (new = <<>> /\ saved = <<>> /\ status # "returned")

\* A token neither grammar accepts as an integer; the set grammar also
\* accepts a range of two integers.
Malformed(t) ==
    IF handler \in SetHandlers THEN ~IsInt(t) /\ ~IsRange(t) ELSE ~IsInt(t)

\* C6: if any token of the spec is no valid integer (nor, in the set
\* grammar, a valid range), the parser fails with ValueError and assigns
\* nothing, whatever the tokens before it; no page is touched afterwards.
C6_MalformedTokenFails ==
    LET toks == Tokens(form)
    IN  ((SetParseEnded \/ OrderParseEnded)
            /\ \E i \in DOMAIN toks : Malformed(toks[i]))
        => /\ status = "raised"
           /\ exc = "ValueError"
           /\ ~parsed
           /\ sel = <<>> /\ todo = <<>> /\ new = <<>> /\ saved = <<>>

\* C6 witness: parsing has failed on a malformed last token that follows two
\* well-formed ones, the first naming a page of the document.
C6_Witness ==
    LET toks == Tokens(form)
    IN  /\ SetParseRan \/ OrderParseRan
        /\ status = "raised"
        /\ Len(toks) = 3
        /\ IsInt(toks[1]) /\ IsInt(toks[2])
        /\ Malformed(toks[3])
        /\ PageCount >= IntOf(toks[1])
        /\ IntOf(toks[1]) >= 1

\* The reorder spec names in-range pages only.
InRangeOrder(toks) ==
    \A i \in DOMAIN toks : IsInt(toks[i]) /\ InRange(IntOf(toks[i]))

\* C7: for a reorder spec of in-range integers the parsed sequence is the
\* token values in the order given, duplicates kept; the pages copied so
\* far are the source pages named by the tokens already consumed, and the
\* saved document has one page per token, the i-th being the i-th token's.
C7_OrderPreserved ==
    LET toks == Tokens(form)
    IN  (OrderParseRan /\ InRangeOrder(toks))
        => /\ parsed
           /\ Len(sel) = Len(toks)
           /\ \A i \in DOMAIN sel : sel[i] = IntOf(toks[i])
           /\ Len(new) = Len(sel) - Len(todo)
           /\ \A i \in DOMAIN new : new[i] = IntOf(toks[i])
           /\ status = "returned" =>
                 /\ Len(saved) = Len(toks)
                 /\ \A i \in DOMAIN saved : saved[i] = IntOf(toks[i])

\* C7 witness: reorder has returned a document for a spec that repeats a
\* page and lists a later page before an earlier one.
C7_Witness ==
    /\ OrderParsed /\ InRangeOrder(Tokens(form))
    /\ status = "returned"
    /\ Len(sel) = 3
    /\ sel[1] > sel[2]
    /\ sel[2] = sel[3]

\* The handler has left, by return or by exception.
Exited == status \in {"returned", "raised"}

\* C8: once the handler has exited, by whatever path, the temporary file it
\* made for the upload is gone.
C8_UploadRemovedOnExit == Exited => "path" \notin fs

\* The pages of the uploaded document, as opened.
Original == [i \in 1..PageCount |-> i]

\* C9: in extract, delete-pages and reorder, as long as the page spec has
\* not been parsed successfully (parsing not reached, or failed) no page has
\* been inserted into the new document, none deleted from the loaded one,
\* and no output file exists or has been written.
C9_ParseBeforeMutation ==
    (handler \in SetHandlers \cup {"reorder_pages"} /\ ~parsed)
    => /\ new = <<>>
       /\ doc \in {<<>>, Original}
       /\ "out" \notin fs
       /\ saved = <<>>

\* C9 witness: parsing has failed, after a first well-formed token naming a
\* page of the document, in a request on a document that has pages.
C9_Witness ==
    /\ SetParseRan \/ OrderParseRan
    /\ status = "raised"
    /\ pc \in {"parse", "parse_order"}
    /\ doc = Original /\ PageCount >= 1
    /\ IsInt(Tokens(form)[1]) /\ InRange(IntOf(Tokens(form)[1]))

\* str(n) for an integer.
RECURSIVE str(_)
str(n) ==
    IF n < 0 THEN <<"-">> \o str(0 - n)
    ELSE IF n < 10 THEN <<Digits[n + 1]>>
    ELSE str(n \div 10) \o <<Digits[(n % 10) + 1]>>

\* A page list rendered back to a spec: ",".join(str(p) for p in pages).
Render(pages) == join([i \in DOMAIN pages |-> str(pages[i])], ",")

\* C10: a non-empty result of the set parser, rendered as comma-separated
\* integers and parsed again with the same page count, is returned unchanged.
C10_RenderParseIdempotent ==
    (handler \in SetHandlers /\ JustParsed /\ sel # <<>>)
        => parse_page_ranges(Render(sel), PageCount) = Value(sel)

\* C10 witness: a result of several pages, one of them of two digits, whose
\* rendering differs from the spec it came from.
C10_Witness ==
    /\ SetParsed
    /\ Len(sel) >= 2
    /\ 10 \in Elems(sel)
    /\ Render(sel) # form

DeleteParsed == handler = "delete_pages" /\ parsed

\* The pages of the uploaded document that a selection leaves, in order.
Keep(selection) == SelectSeq(Original, LAMBDA p : p \notin selection)

\* The pages delete-pages has already removed: those of sel no longer
\* waiting in the loop.
Deleted == Elems(sel) \ Elems(todo)

\* The delete loop is about to remove a page.
Deleting == DeleteParsed /\ At("delete") /\ todo # <<>>

\* The delete loop is over and the handler has gone on.
AfterDeleteLoop ==
    DeleteParsed /\ pc \in {"mkout", "save", "remove", "return"}

\* C11 as claimed: delete-pages always ends by returning the document made
\* of the original pages outside the selection, in order, of pageCount
\* minus the selection size pages.
C11_DeleteResultOriginal ==
    (DeleteParsed /\ Exited)
    => /\ status = "returned"
       /\ saved = Keep(Elems(sel))
       /\ Len(saved) = PageCount - Len(sel)

\* C11 as amended: delete-pages removes the selected pages from the highest
\* to the lowest; each deletion targets an index still in the document that
\* still holds the selected page, and the document is at every step the
\* original without the pages removed so far.  When the selection leaves at
\* least one page, the handler returns exactly the unselected pages, in
\* order, pageCount minus the selection size of them (the unchanged document
\* for an empty selection).  When it leaves none, the handler raises and no
\* document is saved.
C11_DeleteHighestFirst ==
    /\ DeleteParsed =>
          /\ \A i, j \in DOMAIN todo : i < j => todo[i] > todo[j]
          /\ Elems(todo) \subseteq Elems(sel)
    /\ Deleting =>
          /\ Head(todo) \in DOMAIN doc
          /\ doc[Head(todo)] = Head(todo)
    /\ (DeleteParsed /\ pc = "delete") => doc = Keep(Deleted)
    /\ AfterDeleteLoop => doc = Keep(Elems(sel))
    /\ (DeleteParsed /\ Exited /\ Len(sel) < PageCount) =>
          /\ status = "returned"
          /\ saved = Keep(Elems(sel))
          /\ Len(saved) = PageCount - Len(sel)
          /\ sel = <<>> => saved = Original
    /\ (DeleteParsed /\ Exited /\ Len(sel) >= PageCount) =>
          /\ status = "raised"
          /\ exc = "EngineError"
          /\ saved = <<>>

\* C11 witness: delete-pages has returned after removing several pages,
\* not all adjacent and not the last ones only, from a longer document.
C11_Witness ==
    /\ DeleteParsed
    /\ status = "returned"
    /\ Len(sel) >= 2
    /\ sel[1] = 1
    /\ sel[Len(sel)] > Len(sel)
    /\ sel[Len(sel)] < PageCount
    /\ Len(saved) >= 2

====
